---- MODULE Spec2Model ----
(***************************************************************************)
(* Model of the BEEP command line (src/beep/cmd.py): the `structure` and   *)
(* `featurize` subcommands as sequential state machines.                   *)
(*                                                                         *)
(* Strings that the code takes apart (paths, s3 keys, glob patterns) are   *)
(* sequences of tokens: "/", ".", "*" and "-" are tokens of their own and  *)
(* every other token is a name piece, so "d/a.csv" is                      *)
(* <<"d", "/", "a", ".", "csv">>.  Dotted featurizer references are        *)
(* sequences of their dot-separated segments.  Python None, for a value    *)
(* that is otherwise a path, is the empty sequence (both are falsy); for a *)
(* value that is otherwise a string it is the string "None".               *)
(***************************************************************************)
EXTENDS Naturals, Sequences, FiniteSets

(***************************************************************************)
(* Bounds of the model.                                                    *)
(***************************************************************************)
\* most (file, step) pairs of one run
MaxUnits == 7
\* most errors (raised exceptions, failed validations) injected in one run
MaxFaults == 1

(***************************************************************************)
(* Python helpers.                                                         *)
(***************************************************************************)
None == <<>>

Range(s) == {s[x] : x \in DOMAIN s}

\* `x in list`
In(x, s) == \E k \in DOMAIN s : s[k] = x

\* index of the last occurrence of token t in s, 0 when there is none
LastIndexOf(t, s) ==
    IF \E k \in DOMAIN s : s[k] = t
    THEN CHOOSE k \in DOMAIN s : s[k] = t /\ \A m \in DOMAIN s : s[m] = t => m <= k
    ELSE 0

\* A Python dict that is iterated (insertion-ordered): a sequence of
\* <<key, value>> pairs with distinct keys.
DictKeys(d) == [k \in DOMAIN d |-> d[k][1]]

DictHas(d, key) == \E k \in DOMAIN d : d[k][1] = key

DictGet(d, key) == d[CHOOSE k \in DOMAIN d : d[k][1] = key][2]

\* d[key] = value: an existing key keeps its position
DictSet(d, key, value) ==
    IF DictHas(d, key)
    THEN [k \in DOMAIN d |-> IF d[k][1] = key THEN <<key, value>> ELSE d[k]]
    ELSE Append(d, <<key, value>>)

\* dict.update on an unordered option mapping (a function key -> value)
Update(d, p) ==
    [k \in (DOMAIN d) \cup (DOMAIN p) |-> IF k \in DOMAIN p THEN p[k] ELSE d[k]]

(***************************************************************************)
(* os.path and fnmatch on token sequences.                                 *)
(***************************************************************************)
\* ctx.obj.cwd, set by cli() from os.getcwd()
CWD == <<"/", "w">>

\* beep.S3_CACHE
S3_CACHE == <<"/", "cache">>

isabs(p) == p # <<>> /\ p[1] = "/"

join(a, b) ==
    IF isabs(b) THEN b
    ELSE IF a = <<>> \/ a[Len(a)] = "/" THEN a \o b
    ELSE a \o <<"/">> \o b

abspath(p) == IF isabs(p) THEN p ELSE join(CWD, p)

basename(p) == SubSeq(p, LastIndexOf("/", p) + 1, Len(p))

\* os.path.splitext: the extension starts at the last dot of the last
\* component, unless only dots precede it there
splitext(p) ==
    LET sep == LastIndexOf("/", p)
        dot == LastIndexOf(".", p)
    IN  IF dot > sep /\ \E k \in (sep + 1)..(dot - 1) : p[k] # "."
        THEN <<SubSeq(p, 1, dot - 1), SubSeq(p, dot, Len(p))>>
        ELSE <<p, <<>>>>

\* fnmatch.fnmatchcase restricted to the wildcard "*"
RECURSIVE fnmatch(_, _)
fnmatch(name, pat) ==
    IF pat = <<>> THEN name = <<>>
    ELSE IF pat[1] = "*"
         THEN fnmatch(name, Tail(pat)) \/ (name # <<>> /\ fnmatch(Tail(name), pat))
         ELSE name # <<>> /\ name[1] = pat[1] /\ fnmatch(Tail(name), Tail(pat))

fnmatch_filter(names, pat) == SelectSeq(names, LAMBDA nm : fnmatch(nm, pat))

STRUCTURED_SUFFIX == <<"-", "structured">>

FEATURIZED_SUFFIX == <<"-", "featurized">>

JSON_GZ == <<".", "json", ".", "gz">>

add_suffix(full_path, output_dir_, suffix, modified_ext) ==
    LET base == basename(full_path)
        se == splitext(base)
        ext == IF modified_ext # None THEN modified_ext ELSE se[2]
    IN  join(output_dir_, se[1] \o suffix \o ext)

(***************************************************************************)
(* The world of a run: the local filesystem, the remote store, the         *)
(* arguments a caller can give.                                            *)
(***************************************************************************)
A_CSV == <<"a", ".", "csv">>

A_TXT == <<"a", ".", "txt">>

B_CSV == <<"b", ".", "csv">>

C_CSV == <<"c", ".", "csv">>

D_A_CSV == <<"d", "/", "a", ".", "csv">>

ZZ_CSV == <<"zz", ".", "csv">>

GLOB_CSV == <<"*", ".", "csv">>

\* the files on the local disk when the run starts
LocalFS == {abspath(A_CSV), abspath(A_TXT), abspath(D_A_CSV)}

\* [o.key for o in list_s3_objects(s3_bucket)]
S3Keys == <<A_CSV, B_CSV, C_CSV>>

\* the lists a caller may pass as FILES
StructureFileLists ==
    {<<>>, <<A_CSV>>, <<A_CSV, A_TXT>>, <<A_CSV, A_CSV>>, <<A_CSV, D_A_CSV>>,
     <<A_TXT, D_A_CSV, A_CSV>>, <<ZZ_CSV>>, <<A_TXT, ZZ_CSV>>, <<ZZ_CSV, A_TXT>>,
     <<GLOB_CSV>>, <<A_TXT, GLOB_CSV>>, <<B_CSV>>, <<B_CSV, C_CSV>>,
     <<A_TXT, B_CSV>>, <<B_CSV, B_CSV>>, <<B_CSV, GLOB_CSV>>}

FeaturizeFileLists ==
    {<<>>, <<A_CSV>>, <<A_CSV, D_A_CSV>>, <<A_CSV, A_CSV>>, <<A_CSV, ZZ_CSV>>,
     <<ZZ_CSV, A_CSV>>, <<A_TXT, D_A_CSV, A_CSV>>}

OutputDirs == {None, <<"out">>}

OutputFilenames == {<<>>, <<<<"o1">>>>, <<<<"o1">>, <<"o2">>>>}

VARIABLES
    cmd,                        \* the subcommand invoked
    halt_on_error,              \* ctx.obj.halt_on_error
    output_status_json,         \* ctx.obj.output_status_json is given
    s3_bucket,                  \* --s3-bucket is given
    s3_use_cache,
    output_filenames,
    validation_only,
    featurize_with_hyperparams,
    featurize_with_given,       \* the -f values as passed (line 643 rebinds featurize_with)
    files,
    output_dir,
    featurize_with,
    fs,                         \* paths that exist on the local disk
    DEFAULT_HYPERPARAMETERS,    \* the class attribute of every featurizer class
    pc,                         \* position of the run
    exc,                        \* exception that left the subcommand, "None" if none
    i,                          \* index of the current item of the running loop
    j,                          \* index of the current featurizer in the inner loop
    s3_keys_matched,
    local_files,
    local_files_from_s3,
    output_files,
    status_json,
    op_result,
    fclass_names_w_params,
    fclass_tuples,
    summary,                    \* the lists of the summary report
    calls,                      \* the calls made to the external collaborators
    faults                      \* errors injected so far

args == <<cmd, halt_on_error, output_status_json, s3_bucket, s3_use_cache,
          output_filenames, validation_only, featurize_with_hyperparams,
          featurize_with_given>>

s3vars == <<s3_keys_matched, local_files, local_files_from_s3>>

fvars == <<featurize_with, DEFAULT_HYPERPARAMETERS, fclass_names_w_params,
           fclass_tuples, j, op_result>>

vars == <<args, files, output_dir, fs, pc, exc, i, s3vars, output_files,
          status_json, summary, calls, faults, fvars>>

\* a call of a collaborator: for item a (and featurizer b), and how it ended
\* ("ok", "raised", "interrupted")
Call(op, a, b, arg, end) == [op |-> op, i |-> a, j |-> b, arg |-> arg, end |-> end]

\* the exception `e` leaves the subcommand
Raise(e) == pc' = "raised" /\ exc' = e

\* click.Context.exit(1): the unbound method is called with 1 as `self`.
\* Where exit() only raises, click.exceptions.Exit leaves the subcommand;
\* where it first closes the context, `1.close()` is an AttributeError.
ClickExitOutcomes == {"Exit", "AttributeError"}

ClickExit == \E e \in ClickExitOutcomes : Raise(e)

\* an injected error counts against the budget
Fault(n) == faults + n <= MaxFaults /\ faults' = faults + n

(***************************************************************************)
(* structure: file resolution (lines 361-408).                             *)
(***************************************************************************)
HasStar(p) == In("*", p)

\* lines 371-387: the token is appended to local_files
TokenIsLocal(maybe_glob) ==
    IF ~HasStar(maybe_glob)
    THEN ~In(maybe_glob, S3Keys)
    ELSE fnmatch_filter(S3Keys, maybe_glob) = <<>>

\* lines 375 and 385: what is appended to s3_keys_matched for the token:
\* the key itself, or the whole list of matching keys as one element
MatchedEntry(maybe_glob) ==
    IF ~HasStar(maybe_glob)
    THEN [islist |-> FALSE, key |-> maybe_glob, keys |-> <<>>]
    ELSE [islist |-> TRUE, key |-> <<>>, keys |-> fnmatch_filter(S3Keys, maybe_glob)]

MatchTokens(fl) ==
    LET remote == SelectSeq(fl, LAMBDA t : ~TokenIsLocal(t))
    IN  [local |-> SelectSeq(fl, TokenIsLocal),
         matched |-> [k \in DOMAIN remote |-> MatchedEntry(remote[k])]]

\* lines 362-389
S3Match ==
    /\ pc = "start" /\ cmd = "structure" /\ s3_bucket
    /\ \/ /\ calls' = Append(calls, Call("list_s3_objects", 0, 0, None, "ok"))
          /\ s3_keys_matched' = MatchTokens(files).matched
          /\ local_files' = MatchTokens(files).local
          /\ local_files_from_s3' = <<>>
          /\ pc' = "fetch" /\ i' = 1
          /\ UNCHANGED <<exc, faults>>
       \/ /\ Fault(1)
          /\ calls' = Append(calls, Call("list_s3_objects", 0, 0, None, "raised"))
          /\ Raise("ClientError")
          /\ UNCHANGED <<s3vars, i>>
    /\ UNCHANGED <<args, files, output_dir, fs, output_files, status_json,
                   summary, fvars>>

\* lines 391-398, one iteration
S3Fetch ==
    /\ pc = "fetch" /\ i <= Len(s3_keys_matched)
    /\ LET s3k == s3_keys_matched[i]
           s3k_basename == basename(s3k.key)
           pardir == IF s3_use_cache THEN S3_CACHE ELSE CWD
           s3k_local_fullname == join(pardir, s3k_basename)
       IN  IF s3k.islist
           THEN \* os.path.basename of a list
                /\ Raise("TypeError")
                /\ UNCHANGED <<fs, local_files_from_s3, i, calls, faults>>
           ELSE \/ /\ calls' = Append(calls,
                          Call("download_s3_object", i, 0, s3k.key, "ok"))
                   /\ fs' = fs \cup {s3k_local_fullname}
                   /\ local_files_from_s3' =
                          Append(local_files_from_s3, s3k_local_fullname)
                   /\ i' = i + 1
                   /\ UNCHANGED <<pc, exc, faults>>
                \/ /\ Fault(1)
                   /\ calls' = Append(calls,
                          Call("download_s3_object", i, 0, s3k.key, "raised"))
                   /\ Raise("ClientError")
                   /\ UNCHANGED <<fs, local_files_from_s3, i>>
                \/ /\ calls' = Append(calls,
                          Call("download_s3_object", i, 0, s3k.key, "interrupted"))
                   /\ Raise("KeyboardInterrupt")
                   /\ UNCHANGED <<fs, local_files_from_s3, i, faults>>
    /\ UNCHANGED <<args, files, output_dir, s3_keys_matched, local_files,
                   output_files, status_json, summary, fvars>>

\* line 399
S3Done ==
    /\ pc = "fetch" /\ i > Len(s3_keys_matched)
    /\ files' = local_files \o local_files_from_s3
    /\ pc' = "check"
    /\ UNCHANGED <<args, output_dir, fs, exc, i, s3vars, output_files,
                   status_json, summary, calls, faults, fvars>>

\* lines 401-408
CheckFiles ==
    /\ cmd = "structure"
    /\ (pc = "start" /\ ~s3_bucket) \/ pc = "check"
    /\ LET abs == [k \in DOMAIN files |-> abspath(files[k])]
       IN  /\ files' = abs
           /\ IF \E k \in DOMAIN abs : abs[k] \notin fs
              THEN Raise("FileNotFoundError")
              ELSE pc' = "outputs" /\ UNCHANGED exc
    /\ UNCHANGED <<args, output_dir, fs, i, s3vars, output_files, status_json,
                   summary, calls, faults, fvars>>

(***************************************************************************)
(* structure: output naming (lines 410-438).                               *)
(***************************************************************************)
AutoNames(fl, dir) ==
    [k \in DOMAIN fl |-> add_suffix(fl[k], dir, STRUCTURED_SUFFIX, JSON_GZ)]

\* a comparison that catches only a surplus of output filenames
CountMismatchOneWay(n_files, n_outputs) == n_files < n_outputs

\* the number of explicit output filenames must equal the number of inputs
\* (line 428)
CountMismatch(n_files, n_outputs) == n_files # n_outputs

ResolveOutputs ==
    /\ pc = "outputs"
    /\ IF output_dir # None
       THEN \* Output dir overrules output filenames
            /\ output_dir' = abspath(output_dir)
            /\ output_files' = AutoNames(files, abspath(output_dir))
            /\ pc' = "loop" /\ i' = 1
            /\ UNCHANGED exc
       ELSE IF output_filenames # <<>>
       THEN /\ output_files' =
                  [k \in DOMAIN output_filenames |-> abspath(output_filenames[k])]
            /\ IF CountMismatch(Len(files), Len(output_filenames))
               THEN Raise("ValueError") /\ UNCHANGED i
               ELSE pc' = "loop" /\ i' = 1 /\ UNCHANGED exc
            /\ UNCHANGED output_dir
       ELSE /\ output_files' = AutoNames(files, CWD)
            /\ pc' = "loop" /\ i' = 1
            /\ UNCHANGED <<exc, output_dir>>
    /\ UNCHANGED <<args, files, fs, s3vars, status_json, summary, calls,
                   faults, fvars>>

(***************************************************************************)
(* structure: the per-file loop (lines 470-534).                           *)
(*                                                                         *)
(* What the collaborators do with one file is an outcome [kind, at]: the   *)
(* calls before stage `at` return; kind "ok" passes every stage, "invalid" *)
(* is validate() returning not-valid, "error" is the call of stage `at`    *)
(* raising, "interrupt" is a KeyboardInterrupt during the call of stage    *)
(* `at`.                                                                   *)
(***************************************************************************)
StructureStages == <<"md5sum", "auto_load", "validate", "structure", "to_json_file">>

StructureOutcomes(validation_only_) ==
    LET last == IF validation_only_ THEN 3 ELSE 5
    IN  {[kind |-> "ok", at |-> 6], [kind |-> "invalid", at |-> 3]}
        \cup {[kind |-> k, at |-> a] : k \in {"error", "interrupt"}, a \in 1..last}

\* the exception raised inside the try block, "None" if none
Raised(o, invalid_error) ==
    CASE o.kind = "ok" -> "None"
      [] o.kind = "invalid" -> invalid_error
      [] o.kind = "error" -> "Exception"
      [] o.kind = "interrupt" -> "KeyboardInterrupt"

\* an op_result whose traceback is never set
StructureOpResultNoTraceback(o, output_fname, validation_only_) ==
    LET structured == o.at > 5 /\ ~validation_only_
    IN  [validated |-> o.at > 3,
         validation_schema |-> IF o.at > 2 THEN "schema" ELSE "None",
         structured |-> structured,
         output |-> IF structured THEN output_fname ELSE None,
         traceback |-> "None",
         walltime |-> "None",
         raw_md5_chksum |-> IF o.at > 1 THEN "md5" ELSE "None"]

\* lines 473-517 and 527: op_result when the try statement is left
StructureOpResult(o, output_fname, validation_only_) ==
    LET structured == o.at > 5 /\ ~validation_only_
    IN  [validated |-> o.at > 3,
         validation_schema |-> IF o.at > 2 THEN "schema" ELSE "None",
         structured |-> structured,
         output |-> IF structured THEN output_fname ELSE None,
         traceback |-> IF o.kind \in {"invalid", "error"}
                       THEN Raised(o, "BeepValidationError") ELSE "None",
         walltime |-> "None",
         raw_md5_chksum |-> IF o.at > 1 THEN "md5" ELSE "None"]

\* the calls made for one file, in order
StageCalls(stages, last, o, idx, jdx, f, out) ==
    LET n == IF o.at < last THEN o.at ELSE last
    IN  [k \in 1..n |->
            Call(stages[k], idx, jdx,
                 IF stages[k] = "validate"
                 THEN (IF k < o.at THEN <<"True">>
                       ELSE IF o.kind = "invalid" THEN <<"False">> ELSE None)
                 ELSE IF stages[k] \in {"to_json_file", "dumpfn", "md5sum_output"}
                      THEN out ELSE f,
                 IF k < o.at \/ o.kind = "invalid" THEN "ok"
                 ELSE IF o.kind = "interrupt" THEN "interrupted" ELSE "raised")]

\* a try statement without the KeyboardInterrupt clause
StructureNothingCancelled(e) == FALSE

\* line 519: the except clause that takes a KeyboardInterrupt
StructureCancelled(e) == e = "KeyboardInterrupt"

\* a handler that never re-raises
StructureNeverReraises(halt_on_error_) == FALSE

\* line 529
StructureReraises(halt_on_error_) == halt_on_error_

StructureFile ==
    /\ pc = "loop" /\ cmd = "structure" /\ i <= Len(files)
    /\ \E o \in StructureOutcomes(validation_only) :
         LET f == files[i]
             e == Raised(o, "BeepValidationError")
             res == StructureOpResult(o, output_files[i], validation_only)
             last == IF validation_only THEN 3 ELSE 5
         IN  /\ calls' = calls \o StageCalls(StructureStages, last, o, i, 0, f,
                                             output_files[i])
             /\ fs' = IF res.structured THEN fs \cup {res.output} ELSE fs
             /\ IF o.kind \in {"invalid", "error"} THEN Fault(1)
                ELSE UNCHANGED faults
             /\ IF e # "None" /\ StructureCancelled(e)
                THEN ClickExit /\ UNCHANGED <<status_json, i>>
                ELSE IF e # "None" /\ StructureReraises(halt_on_error)
                THEN Raise(e) /\ UNCHANGED <<status_json, i>>
                ELSE /\ status_json' =
                           DictSet(status_json, f, [res EXCEPT !.walltime = "t"])
                     /\ i' = i + 1
                     /\ UNCHANGED <<pc, exc>>
    /\ UNCHANGED <<args, files, output_dir, s3vars, output_files, summary, fvars>>

(***************************************************************************)
(* The status report (lines 107-125, 536-563, 772-811).                    *)
(***************************************************************************)
METADATA == <<"metadata">>

\* a report that gets no metadata
NoMetadata(status_dict) == status_dict

add_metadata_to_status_json(status_dict) ==
    DictSet(status_dict, METADATA,
            [beep_verison |-> "version", op_datetime_utc |-> "utcnow",
             run_id |-> "run_id", tags |-> "tags"])

\* lines 537-545
StructureSummary(status) ==
    LET keys == DictKeys(status)
        r(k) == DictGet(status, k)
    IN  [succeeded |-> SelectSeq(keys, LAMBDA k : r(k).validated /\ r(k).structured),
         failed |-> SelectSeq(keys, LAMBDA k : r(k).validated /\ ~r(k).structured),
         invalid |-> SelectSeq(keys, LAMBDA k : ~r(k).validated)]

\* a report that is written whether or not a location was given
StatusAlwaysRequested(osj) == TRUE

\* lines 561 and 809: `if osj:`
StatusRequested(osj) == osj

\* lines 560-563 and 808-811: dumpfn(status_json, osj)
WriteStatus ==
    IF StatusRequested(output_status_json)
    THEN \/ /\ calls' = Append(calls, Call("dumpfn_status", 0, 0, None, "ok"))
            /\ pc' = "done"
            /\ UNCHANGED <<exc, faults>>
         \/ /\ Fault(1)
            /\ calls' = Append(calls, Call("dumpfn_status", 0, 0, None, "raised"))
            /\ Raise("Exception")
    ELSE pc' = "done" /\ UNCHANGED <<exc, calls, faults>>

StructureReport ==
    /\ pc = "loop" /\ cmd = "structure" /\ i > Len(files)
    /\ summary' = StructureSummary(status_json)
    /\ status_json' = add_metadata_to_status_json(status_json)
    /\ WriteStatus
    /\ UNCHANGED <<args, files, output_dir, fs, i, s3vars, output_files, fvars>>

(***************************************************************************)
(* featurize: the featurizer classes of the host environment.              *)
(* A class object is named by an identifier; ClassName is its __name__.    *)
(***************************************************************************)
\* lines 628-635
core_fclasses ==
    <<"HPPCResistanceVoltageFeatures", "DeltaQFastCharge", "TrajectoryFastCharge",
      "CycleSummaryStats", "DiagnosticProperties", "DiagnosticSummaryStats">>

\* line 636
native_fclasses == core_fclasses \o <<"IntracellCycles", "IntracellFeatures">>

\* the modules importlib.import_module finds, and their attributes
HostModules == {<<"m1">>, <<"m2">>}

HostAttrs(mod) ==
    IF mod = <<"m1">> THEN {"Feat", "NotF"} ELSE IF mod = <<"m2">> THEN {"Feat"} ELSE {}

\* getattr(mod, clsname): the class object
HostClass(mod, clsname) == <<mod[1], clsname>>

ExternalClasses == {HostClass(<<"m1">>, "Feat"), HostClass(<<"m2">>, "Feat"),
                    HostClass(<<"m1">>, "NotF")}

ClassIds == {<<"beep", native_fclasses[k]>> : k \in DOMAIN native_fclasses}
            \cup ExternalClasses

\* cls.__name__
ClassName(cls) == cls[2]

\* a check that takes every class for a featurizer
IsFeaturizerAlways(cls) == TRUE

\* issubclass(cls, BEEPFeaturizer)
IsFeaturizer(cls) == cls # HostClass(<<"m1">>, "NotF")

\* line 639 (and 638): name -> class
native_fclasses_map(name) == <<"beep", name>>

\* the option mappings: functions from option name to value
NoOptions == [k \in {} |-> 0]

DeclaredDefaults == [k \in {"p", "q"} |-> 0]

\* what a caller may pass as -f: names as sequences of dot-separated segments
ALL == <<"all">>

DELTAQ == <<"DeltaQFastCharge">>

INTRACELL == <<"IntracellCycles">>

FeaturizeWithChoices ==
    {<<ALL>>, <<DELTAQ>>, <<DELTAQ, INTRACELL>>, <<ALL, INTRACELL>>,
     <<<<"m1", "Feat">>, <<"m2", "Feat">>>>, <<DELTAQ, <<"m1", "NotF">>>>,
     <<<<"Bogus">>>>, <<<<"nomod", "X">>>>, <<<<"m2", "NotF">>>>}

\* ast.literal_eval(fstr) of what a caller may pass as -h
Fdict(k, v) == [isdict |-> TRUE, items |-> <<<<k, [isnone |-> FALSE, d |-> v]>>>>]

NotADict == [isdict |-> FALSE, items |-> <<>>]

TwoRootKeys ==
    [isdict |-> TRUE,
     items |-> <<<<DELTAQ, [isnone |-> FALSE, d |-> NoOptions]>>,
                 <<INTRACELL, [isnone |-> FALSE, d |-> NoOptions]>>>>]

HyperparamChoices ==
    {<<>>,
     <<Fdict(DELTAQ, [k \in {"p"} |-> 1])>>,
     <<Fdict(DELTAQ, [k \in {"zz"} |-> 1])>>,
     <<Fdict(<<"m1", "Feat">>, [k \in {"q"} |-> 1])>>,
     <<NotADict>>, <<TwoRootKeys>>}

(***************************************************************************)
(* featurize: the list of steps (lines 622-686).                           *)
(***************************************************************************)
\* an expansion to every featurizer that has a short native name
ExpandAllNative(fw) ==
    IF In(ALL, fw) THEN [k \in DOMAIN native_fclasses |-> <<native_fclasses[k]>>]
    ELSE fw

\* an expansion that keeps the other names given with "all"
ExpandAllKeepsOthers(fw) ==
    IF In(ALL, fw)
    THEN [k \in DOMAIN core_fclasses |-> <<core_fclasses[k]>>]
         \o SelectSeq(fw, LAMBDA nm : nm # ALL)
    ELSE fw

\* lines 642-643
ExpandAll(fw) ==
    IF In(ALL, fw) THEN [k \in DOMAIN core_fclasses |-> <<core_fclasses[k]>>] ELSE fw

\* line 647
DefaultEntries(fw) == [k \in DOMAIN fw |-> <<fw[k], [isnone |-> TRUE, d |-> NoOptions]>>]

\* lines 650-657: the entries added for -h, or the error of the first bad one
HyperparamError(fdict) ==
    IF ~fdict.isdict THEN "TypeError"
    ELSE IF Len(fdict.items) # 1 THEN "ValueError"
    ELSE "None"

FeaturizeStart ==
    /\ pc = "start" /\ cmd = "featurize"
    /\ files' = [k \in DOMAIN files |-> abspath(files[k])]
    /\ output_dir' = IF output_dir # None THEN abspath(output_dir) ELSE CWD
    /\ featurize_with' = ExpandAll(featurize_with)
    /\ LET h == featurize_with_hyperparams
           bad == {k \in DOMAIN h : HyperparamError(h[k]) # "None"}
       IN  IF bad # {}
           THEN /\ Raise(HyperparamError(h[CHOOSE k \in bad : \A m \in bad : k <= m]))
                /\ UNCHANGED <<fclass_names_w_params, i, j>>
           ELSE /\ fclass_names_w_params' =
                      DefaultEntries(ExpandAll(featurize_with))
                      \o [k \in DOMAIN h |-> h[k].items[1]]
                /\ pc' = "resolve" /\ i' = 1 /\ j' = 1
                /\ UNCHANGED exc
    /\ UNCHANGED <<args, fs, s3vars, output_files, status_json, summary, calls,
                   faults, DEFAULT_HYPERPARAMETERS, fclass_tuples, op_result>>

\* lines 662-680: the class of the entry, or how the lookup ends the run
ResolveClass(fclass_name) ==
    IF Len(fclass_name) = 1 /\ In(fclass_name[1], native_fclasses)
    THEN [end |-> "None", fclass |-> native_fclasses_map(fclass_name[1])]
    ELSE IF Len(fclass_name) = 1
    THEN [end |-> "Exit", fclass |-> None]
    ELSE LET modname == SubSeq(fclass_name, 1, Len(fclass_name) - 1)
             clsname == fclass_name[Len(fclass_name)]
         IN  IF modname \notin HostModules
             THEN [end |-> "ModuleNotFoundError", fclass |-> None]
             ELSE IF clsname \notin HostAttrs(modname)
             THEN [end |-> "AttributeError", fclass |-> None]
             ELSE IF ~IsFeaturizer(HostClass(modname, clsname))
             THEN [end |-> "Exit", fclass |-> None]
             ELSE [end |-> "None", fclass |-> HostClass(modname, clsname)]

\* lines 683-685: hps is the class attribute itself, updated in place
MergeHyperparameters(defaults, fclass, fclass_params) ==
    IF fclass_params.isnone THEN defaults
    ELSE [defaults EXCEPT ![fclass] = Update(@, fclass_params.d)]

\* lines 661-686, one iteration
ResolveFclass ==
    /\ pc = "resolve" /\ j <= Len(fclass_names_w_params)
    /\ LET fclass_name == fclass_names_w_params[j][1]
           fclass_params == fclass_names_w_params[j][2]
           r == ResolveClass(fclass_name)
       IN  IF r.end # "None"
           THEN /\ IF r.end = "Exit" THEN ClickExit ELSE Raise(r.end)
                /\ UNCHANGED <<DEFAULT_HYPERPARAMETERS, fclass_tuples, j>>
           ELSE /\ DEFAULT_HYPERPARAMETERS' =
                      MergeHyperparameters(DEFAULT_HYPERPARAMETERS, r.fclass,
                                           fclass_params)
                \* hps names the object: fclass.DEFAULT_HYPERPARAMETERS
                /\ fclass_tuples' =
                      Append(fclass_tuples, [fclass |-> r.fclass, hps |-> r.fclass])
                /\ IF j = Len(fclass_names_w_params)
                   THEN pc' = "loop" /\ j' = 0
                   ELSE pc' = "resolve" /\ j' = j + 1
                /\ UNCHANGED exc
    /\ UNCHANGED <<args, files, output_dir, fs, i, s3vars, output_files,
                   status_json, summary, calls, faults, featurize_with,
                   fclass_names_w_params, op_result>>

(***************************************************************************)
(* featurize: the loops over files and featurizers (lines 693-770).        *)
(***************************************************************************)
\* lines 698-707: md5sum(file) and auto_load_processed(file), outside any try
LoadStages == <<"md5sum", "auto_load_processed">>

LoadOutcomes(file, disk) ==
    IF file \notin disk
    THEN {[kind |-> "missing", at |-> 1]}
    ELSE {[kind |-> "ok", at |-> 3]}
         \cup {[kind |-> k, at |-> a] : k \in {"error", "interrupt"}, a \in 1..2}

FeaturizeLoadFile ==
    /\ pc = "loop" /\ cmd = "featurize" /\ j = 0 /\ i <= Len(files)
    /\ \E o \in LoadOutcomes(files[i], fs) :
         /\ calls' = calls \o StageCalls(LoadStages, 2, o, i, 0, files[i], None)
         /\ IF o.kind = "error" THEN Fault(1) ELSE UNCHANGED faults
         /\ CASE o.kind = "ok" ->
                   /\ op_result' = <<<<"walltime", "None">>,
                                     <<"processed_md5_chksum", "md5">>>>
                   /\ j' = 1
                   /\ UNCHANGED <<pc, exc>>
              [] o.kind = "missing" ->
                   Raise("FileNotFoundError") /\ UNCHANGED <<op_result, j>>
              [] o.kind = "error" ->
                   Raise("Exception") /\ UNCHANGED <<op_result, j>>
              [] o.kind = "interrupt" ->
                   Raise("KeyboardInterrupt") /\ UNCHANGED <<op_result, j>>
    /\ UNCHANGED <<args, files, output_dir, fs, i, s3vars, output_files,
                   status_json, summary, featurize_with, DEFAULT_HYPERPARAMETERS,
                   fclass_names_w_params, fclass_tuples>>

FeaturizeStages ==
    <<"construct", "validate", "create_features", "dumpfn", "md5sum_output">>

FeaturizeOutcomes ==
    {[kind |-> "ok", at |-> 6], [kind |-> "invalid", at |-> 2]}
    \cup {[kind |-> k, at |-> a] : k \in {"error", "interrupt"}, a \in 1..5}

\* lines 741-742
FeaturizeOutputPath(fclass_name, file, output_dir_) ==
    join(output_dir_, <<fclass_name, "-">> \o basename(file))

\* lines 710-747 and 758: op_subresult when the try statement is left
FeaturizeOpSubresult(o, output_path) ==
    [output |-> IF o.at > 4 THEN output_path ELSE None,
     valid |-> o.at > 2,
     featurized |-> o.at > 3,
     walltime |-> "None",
     traceback |-> IF o.kind \in {"invalid", "error"}
                   THEN Raised(o, "BEEPFeaturizationError") ELSE "None",
     op_md5_chksum |-> IF o.at > 5 THEN "md5" ELSE "None"]

\* line 749: the except clause that takes a KeyboardInterrupt
FeaturizeCancelled(e) == e = "KeyboardInterrupt"

\* a handler that never re-raises
FeaturizeNeverReraises(halt_on_error_) == FALSE

\* line 760
FeaturizeReraises(halt_on_error_) == halt_on_error_

\* line 765: the key under which the outcome is stored
SubresultKey(fclass) == ClassName(fclass)

\* lines 709-765, one iteration
FeaturizeStep ==
    /\ pc = "loop" /\ cmd = "featurize" /\ j >= 1 /\ j <= Len(fclass_tuples)
    /\ \E o \in FeaturizeOutcomes :
         LET file == files[i]
             fclass == fclass_tuples[j].fclass
             f_hyperparams == DEFAULT_HYPERPARAMETERS[fclass_tuples[j].hps]
             fclass_name == ClassName(fclass)
             output_path == FeaturizeOutputPath(fclass_name, file, output_dir)
             e == Raised(o, "BEEPFeaturizationError")
             res == FeaturizeOpSubresult(o, output_path)
             made == StageCalls(FeaturizeStages, 5, o, i, j, file, output_path)
         IN  /\ calls' = calls \o
                    [k \in DOMAIN made |->
                        IF made[k].op = "construct"
                        THEN [made[k] EXCEPT !.arg = <<fclass, f_hyperparams>>]
                        ELSE made[k]]
             /\ fs' = IF o.at > 4 THEN fs \cup {output_path} ELSE fs
             /\ IF o.kind \in {"invalid", "error"} THEN Fault(1)
                ELSE UNCHANGED faults
             /\ IF e # "None" /\ FeaturizeCancelled(e)
                THEN ClickExit /\ UNCHANGED <<op_result, j>>
                ELSE IF e # "None" /\ FeaturizeReraises(halt_on_error)
                THEN Raise(e) /\ UNCHANGED <<op_result, j>>
                ELSE /\ op_result' = DictSet(op_result, SubresultKey(fclass),
                                             [res EXCEPT !.walltime = "t"])
                     /\ j' = j + 1
                     /\ UNCHANGED <<pc, exc>>
    /\ UNCHANGED <<args, files, output_dir, i, s3vars, output_files, status_json,
                   summary, featurize_with, DEFAULT_HYPERPARAMETERS,
                   fclass_names_w_params, fclass_tuples>>

\* lines 767-770
FeaturizeEndFile ==
    /\ pc = "loop" /\ cmd = "featurize" /\ j > Len(fclass_tuples)
    /\ status_json' = DictSet(status_json, files[i],
                              DictSet(op_result, "walltime", "t"))
    /\ i' = i + 1
    /\ j' = 0
    /\ UNCHANGED <<args, files, output_dir, fs, pc, exc, s3vars, output_files,
                   summary, calls, faults, featurize_with,
                   DEFAULT_HYPERPARAMETERS, fclass_names_w_params, fclass_tuples,
                   op_result>>

\* lines 776-789
FeaturizeSummary(status, n_configured) ==
    LET keys == DictKeys(status)
        data(file) == DictGet(status, file)
        n_success(file) ==
            Cardinality({k \in DOMAIN data(file) :
                /\ data(file)[k][1] \notin {"walltime", "processed_md5_chksum"}
                /\ data(file)[k][2].featurized})
    IN  [all_succeeded |-> SelectSeq(keys, LAMBDA f : n_success(f) = n_configured),
         none_succeeded |->
             SelectSeq(keys, LAMBDA f : n_success(f) # n_configured /\ n_success(f) = 0),
         some_succeeded |->
             SelectSeq(keys, LAMBDA f : n_success(f) # n_configured /\ n_success(f) # 0)]

FeaturizeReport ==
    /\ pc = "loop" /\ cmd = "featurize" /\ j = 0 /\ i > Len(files)
    /\ summary' = FeaturizeSummary(status_json, Len(fclass_tuples))
    /\ status_json' = add_metadata_to_status_json(status_json)
    /\ WriteStatus
    /\ UNCHANGED <<args, files, output_dir, fs, i, s3vars, output_files, fvars>>

(***************************************************************************)
(* The runs.                                                               *)
(***************************************************************************)
NoSummary == [none |-> TRUE]

Init ==
    /\ cmd \in {"structure", "featurize"}
    /\ halt_on_error \in BOOLEAN
    /\ output_status_json \in BOOLEAN
    /\ output_dir \in OutputDirs
    /\ IF cmd = "structure"
       THEN /\ files \in StructureFileLists
            /\ s3_bucket \in BOOLEAN
            /\ s3_use_cache \in (IF s3_bucket THEN BOOLEAN ELSE {FALSE})
            /\ output_filenames \in OutputFilenames
            /\ validation_only \in BOOLEAN
            /\ featurize_with = <<ALL>>
            /\ featurize_with_hyperparams = <<>>
       ELSE /\ files \in FeaturizeFileLists
            /\ s3_bucket = FALSE
            /\ s3_use_cache = FALSE
            /\ output_filenames = <<>>
            /\ validation_only = FALSE
            /\ featurize_with \in FeaturizeWithChoices
            /\ featurize_with_hyperparams \in HyperparamChoices
            /\ Len(files) * (Len(ExpandAll(featurize_with))
                             + Len(featurize_with_hyperparams)) <= MaxUnits
    /\ featurize_with_given = featurize_with
    /\ fs = LocalFS
    /\ DEFAULT_HYPERPARAMETERS = [c \in ClassIds |-> DeclaredDefaults]
    /\ pc = "start"
    /\ exc = "None"
    /\ i = 0
    /\ j = 0
    /\ s3_keys_matched = <<>>
    /\ local_files = <<>>
    /\ local_files_from_s3 = <<>>
    /\ output_files = <<>>
    /\ status_json = <<>>
    /\ op_result = <<>>
    /\ fclass_names_w_params = <<>>
    /\ fclass_tuples = <<>>
    /\ summary = NoSummary
    /\ calls = <<>>
    /\ faults = 0

Next ==
    \/ S3Match
    \/ S3Fetch
    \/ S3Done
    \/ CheckFiles
    \/ ResolveOutputs
    \/ StructureFile
    \/ StructureReport
    \/ FeaturizeStart
    \/ ResolveFclass
    \/ FeaturizeLoadFile
    \/ FeaturizeStep
    \/ FeaturizeEndFile
    \/ FeaturizeReport

Spec == Init /\ [][Next]_vars

(***************************************************************************)
(* Vocabulary of the properties.                                           *)
(***************************************************************************)
Last(sq) == sq[Len(sq)]

\* the calls that process one item
ItemOps == Range(StructureStages) \cup Range(LoadStages) \cup Range(FeaturizeStages)

ItemCalls == SelectSeq(calls, LAMBDA c : c.op \in ItemOps)

\* the exceptions of a failed validation or a failed processing call
ItemErrors == {"Exception", "BeepValidationError", "BEEPFeaturizationError"}

\* the exceptions with which an operator interrupt leaves the subcommand
Cancellations == ClickExitOutcomes \cup {"KeyboardInterrupt"}

\* the entries of the report that are outcomes of files
FileEntries == SelectSeq(status_json, LAMBDA kv : kv[1] # METADATA)

FileKeys == {FileEntries[k][1] : k \in DOMAIN FileEntries}

\* the per-step records stored under one file of a featurize report
StepRecords(data) ==
    SelectSeq(data, LAMBDA kv : kv[1] \notin {"walltime", "processed_md5_chksum"})

\* the run is inside the loop over the files, at a file
AtItem == pc = "loop" /\ i <= Len(files)

\* this step injects an error into the processing of the current item
ItemFails == AtItem /\ faults' = faults + 1

\* this step is interrupted by the operator while it processes an item
ItemInterrupted == AtItem /\ calls' # calls /\ Last(calls').end = "interrupted"

(***************************************************************************)
(* C1.  In a featurize run with halt-on-error off that has produced its    *)
(* report, every file of the report holds as many per-step records as      *)
(* there are configured steps (entries of fclass_tuples).                  *)
(***************************************************************************)
C1_OneOutcomePerPair ==
    (cmd = "featurize" /\ ~halt_on_error /\ pc = "done") =>
        \A k \in DOMAIN FileEntries :
            Len(StepRecords(FileEntries[k][2])) = Len(fclass_tuples)

(***************************************************************************)
(* C2.  With halt-on-error off, no error of the processing of one file     *)
(* (other than an operator interrupt, or the file missing from the disk)   *)
(* leaves the subcommand: the run goes on to the next file and to the      *)
(* report.                                                                 *)
(***************************************************************************)
C2_ErrorsAreCaptured ==
    [][(~halt_on_error /\ ItemFails) =>
          (pc' = "loop" /\ exc' = "None" /\ Len(ItemCalls') > Len(ItemCalls))]_vars

(***************************************************************************)
(* C3.  With halt-on-error on, the step in which a validation or a         *)
(* processing error occurs at file i re-raises it out of the subcommand,   *)
(* records nothing, and leaves a report whose entries are those of the     *)
(* files 1..i-1; nothing is started after it.                              *)
(***************************************************************************)
C3_HaltReraises ==
    [][/\ (halt_on_error /\ ItemFails) =>
            /\ pc' = "raised" /\ exc' \in ItemErrors
            /\ status_json' = status_json
            /\ FileKeys' = {files[m] : m \in 1..(i - 1)}
            /\ \A k \in DOMAIN ItemCalls' : ItemCalls'[k].i <= i
       /\ pc = "raised" => UNCHANGED vars]_vars

C3_Witness ==
    /\ halt_on_error /\ pc = "raised" /\ exc \in ItemErrors
    /\ Len(files) = 3 /\ i = 2
    /\ FileKeys = {files[1]}
    /\ calls # <<>> /\ Last(calls).i = 2 /\ Last(calls).end = "raised"

(***************************************************************************)
(* C4.  An operator interrupt during the processing of a (file, step) is   *)
(* not recorded: whatever halt-on-error is, the step ends the run, the     *)
(* report and the entry under construction are unchanged, and nothing is   *)
(* started after it.                                                       *)
(***************************************************************************)
C4_InterruptEndsRun ==
    [][/\ ItemInterrupted =>
            /\ pc' = "raised" /\ exc' \in Cancellations
            /\ status_json' = status_json
            /\ op_result' = op_result
       /\ pc = "raised" => UNCHANGED vars]_vars

C4_Witness ==
    /\ ~halt_on_error /\ pc = "raised" /\ exc = "Exit"
    /\ calls # <<>> /\ Last(calls).end = "interrupted"
    /\ Len(FileEntries) = 1 /\ i = 2
    /\ FileEntries[1][2].traceback # "None"

(***************************************************************************)
(* C5.  In the file resolution of structure with a bucket, a token without *)
(* a wildcard that names an existing local file and a key of the store is  *)
(* never fetched, and the resolved list holds the local file.              *)
(***************************************************************************)
Downloads(keys) ==
    {k \in DOMAIN calls : calls[k].op = "download_s3_object" /\ calls[k].arg \in keys}

C5_LocalWins ==
    \A n \in DOMAIN s3_keys_matched :
        LET e == s3_keys_matched[n]
        IN  (~e.islist /\ abspath(e.key) \in LocalFS) =>
                /\ Downloads({e.key}) = {}
                /\ pc \in {"check", "outputs", "loop", "done"} =>
                       In(abspath(e.key), files)

(***************************************************************************)
(* C6.  When the resolution of structure has ended, without an injected    *)
(* error or an interrupt, every wildcard token that matched n keys of      *)
(* which m are local files has caused n-m fetches, and the resolved list   *)
(* holds the m local files and the n-m fetched files.                      *)
(***************************************************************************)
C6_WildcardFetches ==
    (cmd = "structure" /\ pc \notin {"start", "fetch"} /\ faults = 0
        /\ exc # "KeyboardInterrupt") =>
        \A n \in DOMAIN s3_keys_matched :
            LET e == s3_keys_matched[n]
                keys == Range(e.keys)
                loc == {k \in keys : abspath(k) \in LocalFS}
                pardir == IF s3_use_cache THEN S3_CACHE ELSE CWD
            IN  e.islist =>
                    /\ Cardinality(Downloads(keys)) = Cardinality(keys \ loc)
                    /\ Downloads(loc) = {}
                    /\ \A k \in loc : In(abspath(k), files)
                    /\ \A k \in keys \ loc : In(join(pardir, basename(k)), files)

(***************************************************************************)
(* C7.  In a featurize run, two entries of the list of steps that differ   *)
(* in their identifier, or in the configuration they are run with, get     *)
(* different output paths for the same input file.                         *)
(***************************************************************************)
StepsDiffer(a, b) ==
    \/ fclass_names_w_params[a][1] # fclass_names_w_params[b][1]
    \/ DEFAULT_HYPERPARAMETERS[fclass_tuples[a].hps]
           # DEFAULT_HYPERPARAMETERS[fclass_tuples[b].hps]

C7_DistinctOutputs ==
    (cmd = "featurize" /\ pc = "loop") =>
        \A n \in DOMAIN files : \A a, b \in DOMAIN fclass_tuples :
            (a # b /\ StepsDiffer(a, b)) =>
                FeaturizeOutputPath(ClassName(fclass_tuples[a].fclass), files[n],
                                    output_dir)
                # FeaturizeOutputPath(ClassName(fclass_tuples[b].fclass), files[n],
                                      output_dir)

(***************************************************************************)
(* C8.  Every featurizer is constructed with its declared defaults         *)
(* overridden by the options given for its own entry only, and the         *)
(* declared defaults of every class stay as declared.                      *)
(***************************************************************************)
C8_DefaultsMerged ==
    /\ DEFAULT_HYPERPARAMETERS = [c \in ClassIds |-> DeclaredDefaults]
    /\ \A k \in DOMAIN calls :
          calls[k].op = "construct" =>
              calls[k].arg[2] =
                  Update(DeclaredDefaults, fclass_names_w_params[calls[k].j][2].d)

(***************************************************************************)
(* C9.  No featurizer is constructed with an option that is not among the  *)
(* keys of its declared defaults.                                          *)
(***************************************************************************)
C9_UnknownKeysRejected ==
    \A k \in DOMAIN calls :
        calls[k].op = "construct" =>
            DOMAIN calls[k].arg[2] \subseteq DOMAIN DeclaredDefaults

(***************************************************************************)
(* C10.  In structure, once the list of files is resolved and explicit     *)
(* output filenames were given whose number differs from the number of     *)
(* files, the run fails: no file is processed and the report is empty.     *)
(* As stated it is C10_MismatchAlwaysFails; it holds when no output        *)
(* directory is given (C10_MismatchFailsWithoutOutputDir).                 *)
(***************************************************************************)
Resolved == cmd = "structure" /\ pc \notin {"start", "fetch", "check"}
            /\ exc \notin {"ClientError", "TypeError", "KeyboardInterrupt"}

Mismatch == output_filenames # <<>> /\ Len(output_filenames) # Len(files)

FailsBeforeProcessing ==
    /\ pc \in {"outputs", "raised"}
    /\ pc = "raised" => exc \in {"ValueError", "FileNotFoundError"}
    /\ ItemCalls = <<>>
    /\ status_json = <<>>

C10_MismatchAlwaysFails == (Resolved /\ Mismatch) => FailsBeforeProcessing

C10_MismatchFailsWithoutOutputDir ==
    (Resolved /\ Mismatch /\ output_dir = None) => FailsBeforeProcessing

C10_Witness ==
    /\ cmd = "structure" /\ pc = "raised" /\ exc = "ValueError"
    /\ output_dir = None
    /\ Len(files) = 2 /\ Len(output_filenames) = 1

(***************************************************************************)
(* C11.  In structure, every structured file is written to the path the    *)
(* precedence explicit output filenames > output directory > working       *)
(* directory gives: the i-th explicit filename when filenames are given    *)
(* (one per input), else the auto-name inside the output directory when    *)
(* one is given, else the auto-name inside the working directory.          *)
(***************************************************************************)
ExpectedOutput(k) ==
    IF output_filenames # <<>> THEN abspath(output_filenames[k])
    ELSE IF output_dir # None
    THEN add_suffix(files[k], abspath(output_dir), STRUCTURED_SUFFIX, JSON_GZ)
    ELSE add_suffix(files[k], CWD, STRUCTURED_SUFFIX, JSON_GZ)

C11_OutputPrecedence ==
    (cmd = "structure"
        /\ (output_filenames = <<>> \/ Len(output_filenames) = Len(files))) =>
        \A c \in DOMAIN calls :
            calls[c].op = "to_json_file" =>
                calls[c].arg = ExpectedOutput(calls[c].i)

(***************************************************************************)
(* C12.  When "all" is among the -f values of a featurize run, the list of *)
(* steps is the "all" expansion, each step once, followed by one entry for *)
(* every -h value in the order given: the other -f names are ignored, the  *)
(* steps named with hyperparameters are not.  The classes applied are      *)
(* those of the list, entry by entry.  As stated (nothing but the          *)
(* expansion) it is C12_AllSuppressesOthers.                               *)
(***************************************************************************)
AllExpansion == [k \in DOMAIN core_fclasses |-> <<core_fclasses[k]>>]

AllGiven == cmd = "featurize" /\ In(ALL, featurize_with_given)

StepNames(entries) == [k \in DOMAIN entries |-> entries[k][1]]

AppliedNames == [k \in DOMAIN fclass_tuples |-> <<ClassName(fclass_tuples[k].fclass)>>]

AppliedClasses == [k \in DOMAIN fclass_tuples |-> fclass_tuples[k].fclass]

ClassesOf(names) == [k \in DOMAIN names |-> ResolveClass(names[k]).fclass]

LoadOps == {"auto_load", "auto_load_processed"}

WriteOps == {"to_json_file", "dumpfn"}

C13_MissingFileFailsFirst ==
    (pc = "raised" /\ exc = "FileNotFoundError") =>
        /\ \A c \in DOMAIN calls : calls[c].op \notin LoadOps \cup WriteOps
        /\ status_json = <<>>

(***************************************************************************)
(* C14.  For every (file, step) whose validation returned not-valid, the   *)
(* step was never executed and wrote nothing; and in the report of a run   *)
(* with halt-on-error off, the outcome recorded for that file and step is  *)
(* not validated, not structured/featurized, and without an output.        *)
(***************************************************************************)
ExecOps == {"structure", "create_features"}

\* the (file, step) positions whose validate() returned not-valid
InvalidPairs ==
    {<<calls[c].i, calls[c].j>> : c \in
        {d \in DOMAIN calls : calls[d].op = "validate" /\ calls[d].arg = <<"False">>}}

\* the outcome the report holds for the file at position a and the step at
\* position b
RecordOf(a, b) ==
    IF cmd = "structure" THEN DictGet(status_json, files[a])
    ELSE DictGet(DictGet(status_json, files[a]), SubresultKey(fclass_tuples[b].fclass))

ListedOnce(a) == \A m \in DOMAIN files : files[m] = files[a] => m = a

NotExecuted(a, b) ==
    \A c \in DOMAIN calls :
        (calls[c].i = a /\ calls[c].j = b) => calls[c].op \notin ExecOps \cup WriteOps

C14_InvalidNotExecuted ==
    \A p \in InvalidPairs :
        /\ NotExecuted(p[1], p[2])
        /\ (~halt_on_error /\ pc = "done" /\ ListedOnce(p[1])) =>
              LET r == RecordOf(p[1], p[2])
              IN  /\ r.output = None
                  /\ IF cmd = "structure" THEN ~r.validated /\ ~r.structured
                     ELSE ~r.valid /\ ~r.featurized

(***************************************************************************)
(* C15.  In the summary of a finished featurize run, a file is in the      *)
(* class all-succeeded exactly when every configured step was applied to   *)
(* it with success, in none-succeeded exactly when no step was, and in     *)
(* some-succeeded otherwise.                                               *)
(***************************************************************************)
\* the positions of the steps whose create_features() returned for the file
\* at position a
SucceededSteps(a) ==
    {b \in DOMAIN fclass_tuples :
        \E c \in DOMAIN calls :
            /\ calls[c].op = "create_features" /\ calls[c].end = "ok"
            /\ calls[c].i = a /\ calls[c].j = b}

C15_SummaryClasses ==
    (cmd = "featurize" /\ pc = "done") =>
        \A a \in DOMAIN files :
            ListedOnce(a) =>
                LET n == Cardinality(SucceededSteps(a))
                    all == n = Len(fclass_tuples)
                    none == n = 0 /\ ~all
                IN  /\ In(files[a], summary.all_succeeded) <=> all
                    /\ In(files[a], summary.none_succeeded) <=> none
                    /\ In(files[a], summary.some_succeeded) <=> (~all /\ ~none)

(***************************************************************************)
(* C16.  The metadata block is attached to the report at most once, by the *)
(* step that follows the last item of the loop, as the last entry and      *)
(* without touching the entries of the files; the report and the item      *)
(* calls never change after it; a run that comes to its end has it, and a  *)
(* run that an error or an interrupt ends before the end of the loop has   *)
(* none.  As stated (also a run ended by a failure under halt-on-error has *)
(* it) it is C16_MetadataInEveryRun.                                       *)
(***************************************************************************)
HasMetadata == DictHas(status_json, METADATA)

LoopOver == pc = "loop" /\ i > Len(files) /\ (cmd = "featurize" => j = 0)

HaltedByFailure == pc = "raised" /\ halt_on_error /\ exc \in ItemErrors

C16_MetadataInEveryRun ==
    (pc = "done" \/ HaltedByFailure) =>
        /\ HasMetadata
        /\ Last(status_json)[1] = METADATA

C16_MetadataOnceAtEnd ==
    [][/\ (HasMetadata' /\ ~HasMetadata) =>
            /\ LoopOver
            /\ FileEntries' = status_json
            /\ Last(status_json')[1] = METADATA
       /\ HasMetadata => (status_json' = status_json /\ ItemCalls' = ItemCalls)
       /\ pc' = "done" => HasMetadata'
       /\ (pc' = "raised" /\ ~LoopOver) => ~HasMetadata']_vars

C16_Witness ==
    /\ pc = "done"
    /\ Len(status_json) = 3
    /\ Last(status_json)[1] = METADATA
    /\ Len(FileEntries) = 2
    /\ \E c \in DOMAIN calls : calls[c].end = "raised"

(***************************************************************************)
(* C17.  Once the list of files is resolved it holds no path twice; no key *)
(* is fetched twice and no file is loaded twice.                           *)
(***************************************************************************)
FilesResolved ==
    \/ pc \in {"outputs", "loop", "done"}
    \/ cmd = "featurize" /\ pc = "resolve"

C17_NoDuplicates ==
    /\ FilesResolved =>
          \A a, b \in DOMAIN files : files[a] = files[b] => a = b
    /\ \A c, d \in DOMAIN calls :
          (/\ calls[c].op \in {"download_s3_object"} \cup LoadOps
           /\ calls[c].op = calls[d].op
           /\ calls[c].arg = calls[d].arg) => c = d

(***************************************************************************)
(* C18.  A fetch that fails does not end the run: the resolution goes on   *)
(* with the next matched key, and when it is over every other matched key  *)
(* has been fetched.                                                       *)
(***************************************************************************)
FetchFails ==
    /\ pc = "fetch"
    /\ calls' # calls
    /\ Last(calls').op = "download_s3_object"
    /\ Last(calls').end = "raised"

C18_FetchFailureConfined ==
    [][FetchFails =>
          /\ pc' = "fetch" /\ exc' = "None"
          /\ i' = i + 1
          /\ s3_keys_matched' = s3_keys_matched]_vars

(***************************************************************************)
(* C19.  The status report is written only by the step that follows the    *)
(* last item of the loop, only when an output location was given, with the *)
(* metadata attached and an entry for every file, and not a second time;   *)
(* a run that an error or an interrupt ends before the end of the loop has *)
(* written none.                                                           *)
(***************************************************************************)
StatusWrites == {c \in DOMAIN calls : calls[c].op = "dumpfn_status"}

C19_StatusWrittenOnceAtEnd ==
    [][/\ StatusWrites' # StatusWrites =>
            /\ output_status_json
            /\ LoopOver
            /\ StatusWrites = {}
            /\ Cardinality(StatusWrites') = 1
            /\ HasMetadata'
            /\ FileKeys' = Range(files)
       /\ (pc' = "raised" /\ ~LoopOver) => StatusWrites' = {}]_vars

C19_Witness ==
    /\ pc = "done"
    /\ output_status_json
    /\ calls # <<>> /\ Last(calls).op = "dumpfn_status" /\ Last(calls).end = "ok"
    /\ Cardinality(StatusWrites) = 1
    /\ Len(FileEntries) = 2
    /\ HasMetadata

(***************************************************************************)
(* C20.  When the resolution of the steps comes to an external reference   *)
(* whose object is not a featurizer class, the run ends there, whatever    *)
(* halt-on-error is: no class is added, no file has been processed, the    *)
(* report is empty, and nothing happens afterwards.  As stated (with       *)
(* halt-on-error off the resolution goes on with the next step) it is      *)
(* C20_OnlyThatStepAborted.                                                *)
(***************************************************************************)
\* the reference to the class of the host that is not a featurizer
NOT_A_STEP == <<"m1", "NotF">>

AtNotAStep ==
    /\ cmd = "featurize" /\ pc = "resolve"
    /\ j <= Len(fclass_names_w_params)
    /\ fclass_names_w_params[j][1] = NOT_A_STEP

C20_OnlyThatStepAborted ==
    [][(AtNotAStep /\ ~halt_on_error) =>
          /\ pc' \in {"resolve", "loop"}
          /\ exc' = "None"]_vars

C20_NotAStepEndsRun ==
    [][/\ AtNotAStep =>
            /\ pc' = "raised" /\ exc' \in ClickExitOutcomes
            /\ fclass_tuples' = fclass_tuples
            /\ ItemCalls' = <<>>
            /\ status_json' = <<>>
       /\ pc = "raised" => UNCHANGED vars]_vars

C20_Witness ==
    /\ cmd = "featurize" /\ ~halt_on_error
    /\ pc = "raised" /\ exc = "Exit"
    /\ j = 2 /\ fclass_names_w_params[2][1] = NOT_A_STEP
    /\ Len(fclass_tuples) = 1
    /\ files # <<>>
    /\ calls = <<>>

(***************************************************************************)
(* C21.  Every outcome recorded as a success has an output and no          *)
(* traceback: in featurize every step record with featurized = true, in    *)
(* structure every entry with structured = true.                           *)
(***************************************************************************)
\* the per-step records of a featurize run: those of the report and those
\* of the entry under construction
AllStepRecords ==
    UNION {Range(StepRecords(FileEntries[k][2])) : k \in DOMAIN FileEntries}
    \cup Range(StepRecords(op_result))

C21_SuccessHasOutput ==
    IF cmd = "featurize"
    THEN \A kv \in AllStepRecords :
            kv[2].featurized => (kv[2].output # None /\ kv[2].traceback = "None")
    ELSE \A k \in DOMAIN FileEntries :
            FileEntries[k][2].structured =>
                (FileEntries[k][2].output # None
                 /\ FileEntries[k][2].traceback = "None")

(***************************************************************************)
(* C22.  In the summary of structure a file is in the class invalid        *)
(* exactly when its validation was called and returned not-valid; a file   *)
(* for which a call of the processing raised is in the class failed.       *)
(***************************************************************************)
\* the positions of the files for which a processing call raised
RaisedItems ==
    {calls[c].i : c \in
        {d \in DOMAIN calls : calls[d].op \in ItemOps /\ calls[d].end = "raised"}}

C22_InvalidMeansNotValid ==
    (cmd = "structure" /\ summary # NoSummary) =>
        \A a \in DOMAIN files :
            ListedOnce(a) =>
                /\ In(files[a], summary.invalid) <=> <<a, 0>> \in InvalidPairs
                /\ a \in RaisedItems => In(files[a], summary.failed)

(***************************************************************************)
(* C23.  When "all" is among the -f values, the steps applied with default *)
(* options are the six core featurizers and no other: the two featurizers  *)
(* that have a short native name without being core (IntracellCycles,      *)
(* IntracellFeatures) are not among them.  As stated (every featurizer     *)
(* with a short native name is applied) it is C23_AllIsEveryNative.        *)
(***************************************************************************)
CoreNames ==
    {"HPPCResistanceVoltageFeatures", "DeltaQFastCharge", "TrajectoryFastCharge",
     "CycleSummaryStats", "DiagnosticProperties", "DiagnosticSummaryStats"}

NonCoreNames == {"IntracellCycles", "IntracellFeatures"}

StepsBuilt == cmd = "featurize" /\ pc \in {"loop", "done"}

\* the classes of the steps that come from the -f values
SelectionClasses ==
    {fclass_tuples[k].fclass : k \in
        {m \in DOMAIN fclass_tuples : fclass_names_w_params[m][2].isnone}}

C23_AllIsEveryNative ==
    (AllGiven /\ StepsBuilt) =>
        \A k \in DOMAIN native_fclasses :
            native_fclasses_map(native_fclasses[k]) \in Range(AppliedClasses)

C23_AllIsCore ==
    (AllGiven /\ StepsBuilt) =>
        /\ SelectionClasses = {<<"beep", n>> : n \in CoreNames}
        /\ \A n \in NonCoreNames :
              /\ <<"beep", n>> \notin SelectionClasses
              /\ ResolveClass(<<n>>).fclass = <<"beep", n>>

C23_Witness ==
    /\ featurize_with_given = <<ALL>>
    /\ featurize_with_hyperparams = <<>>
    /\ cmd = "featurize" /\ pc = "done"
    /\ Len(files) = 1
    /\ Len(fclass_tuples) = 6
    /\ Cardinality({c \in DOMAIN calls : calls[c].op = "create_features"
                                         /\ calls[c].end = "ok"}) = 6

(***************************************************************************)
(* C24.  Within one run, in structure with auto-naming and in featurize,   *)
(* the outputs written for two different input files by the same step go   *)
(* to different paths.                                                     *)
(***************************************************************************)
AutoNamed == cmd = "featurize" \/ output_dir # None \/ output_filenames = <<>>

\* the writes of outputs that were carried out
OutputWrites == {c \in DOMAIN calls : calls[c].op \in WriteOps /\ calls[c].end = "ok"}

C24_NoOutputOverwritten ==
    AutoNamed =>
        \A c, d \in OutputWrites :
            (calls[c].j = calls[d].j /\ files[calls[c].i] # files[calls[d].i]) =>
                calls[c].arg # calls[d].arg

(***************************************************************************)
(* C25.  In a run with halt-on-error on, every outcome stored in the       *)
(* report is a success without traceback (structure: validated; featurize: *)
(* every step record valid and featurized), and the summary has no invalid *)
(* file, no file without a successful step, and, unless validation-only is *)
(* set, no failed file: with validation-only every file of the report is   *)
(* in the class `failed`, which is then the class of the files validated   *)
(* and not structured.  As stated (no failed file in any run) it is        *)
(* C25_HaltStoresOnlySuccesses.                                            *)
(***************************************************************************)
StoredAreSuccesses ==
    IF cmd = "structure"
    THEN \A k \in DOMAIN FileEntries :
            FileEntries[k][2].validated /\ FileEntries[k][2].traceback = "None"
    ELSE \A k \in DOMAIN FileEntries :
            \A kv \in Range(StepRecords(FileEntries[k][2])) :
                kv[2].valid /\ kv[2].featurized /\ kv[2].traceback = "None"

C25_HaltStoresOnlySuccesses ==
    halt_on_error =>
        /\ StoredAreSuccesses
        /\ (cmd = "structure" /\ summary # NoSummary) =>
              (summary.invalid = <<>> /\ summary.failed = <<>>)
        /\ (cmd = "featurize" /\ summary # NoSummary) =>
              summary.none_succeeded = <<>>

C25_HaltStoresOnlyValidated ==
    halt_on_error =>
        /\ StoredAreSuccesses
        /\ (cmd = "structure" /\ summary # NoSummary) =>
              /\ summary.invalid = <<>>
              /\ IF validation_only
                 THEN summary.failed = DictKeys(FileEntries)
                      /\ summary.succeeded = <<>>
                 ELSE summary.failed = <<>>
                      /\ summary.succeeded = DictKeys(FileEntries)
        /\ (cmd = "featurize" /\ summary # NoSummary) =>
              summary.none_succeeded = <<>>

C25_Witness ==
    /\ halt_on_error /\ pc = "done"
    /\ cmd = "featurize"
    /\ Len(FileEntries) = 2
    /\ Len(fclass_tuples) = 2
    /\ Len(summary.all_succeeded) = 2

(***************************************************************************)
(* C26.  Every entry of the report of structure is structured only if      *)
(* validated; if not validated it is not structured and has no output; it  *)
(* has a traceback exactly when an exception other than an operator        *)
(* interrupt was raised while its file was processed (a call raised, or    *)
(* the validation returned not-valid).  With validation-only no entry is   *)
(* structured, nothing is structured or written, and no file appears on    *)
(* the disk.                                                               *)
(***************************************************************************)
\* the positions of the files during whose processing an exception was raised
ExceptionItems == RaisedItems \cup {p[1] : p \in InvalidPairs}

C26_StructureEntries ==
    cmd = "structure" =>
        /\ \A k \in DOMAIN FileEntries :
              LET r == FileEntries[k][2]
              IN  /\ r.structured => r.validated
                  /\ ~r.validated => (~r.structured /\ r.output = None)
                  /\ r.structured <=> r.output # None
                  /\ \A a \in DOMAIN files :
                        (files[a] = FileEntries[k][1] /\ ListedOnce(a)) =>
                            (r.traceback # "None" <=> a \in ExceptionItems)
        /\ validation_only =>
              /\ \A k \in DOMAIN FileEntries : ~FileEntries[k][2].structured
              /\ \A c \in DOMAIN calls :
                    calls[c].op \notin ExecOps \cup WriteOps
              /\ \A f \in fs \ LocalFS :
                    \E c \in DOMAIN calls : calls[c].op = "download_s3_object"

C26_Witness ==
    /\ cmd = "structure" /\ validation_only /\ pc = "done"
    /\ Len(FileEntries) = 2
    /\ FileEntries[1][2].traceback # "None" /\ ~FileEntries[1][2].validated
    /\ FileEntries[2][2].traceback = "None" /\ FileEntries[2][2].validated

====
